---- MODULE Spec2Model ----
(***************************************************************************)
(* The smart-house repository (src/smarthouse/persistence.py) and the HTTP *)
(* handlers that call it (src/smarthouse/api.py) as a state machine.       *)
(*                                                                         *)
(* The storage is the four tables rooms, devices, states, measurements.    *)
(* Numeric values (setpoints, measured values) are counted in tenths, so   *)
(* 10 stands for 1.0 and 215 for 21.5.  A room's area and name and a       *)
(* device's supplier and product are copied through by the code and take   *)
(* part in no decision; the rows carry the columns the code branches on.   *)
(***************************************************************************)
EXTENDS Integers, Sequences, FiniteSets, Bags, TLC

\* Bounds of the model.
MaxRows == 3        \* rows the measurements table holds at most
MaxCursors == 2     \* cursors the connection hands out before it is exhausted
MaxHumidityRows == 5    \* rows of the table the humidity statistic is run on
MaxTemperatureRows == 3 \* rows of the table the temperature statistic is run on

\* The float the loader compares a stored state with (persistence.py:80), in tenths.
One == 10
\* HAVING COUNT(m.value) > 3 (persistence.py:248)
HourCount == 3
\* WHERE d.room = 4 in the subquery of the humidity query (persistence.py:246)
AvgRoom == 4

\* The unit strings the two statistics filter on (persistence.py:213 and :240).
TempUnit == "degC"
HumidityUnit == "%"

VARIABLES
    rooms,          \* table rooms(id, floor, ...)
    devices,        \* table devices(id, room, kind, category, ...)
    states,         \* table states(device, state)
    measurements,   \* table measurements(device, ts, value, unit), a bag of rows
    house,          \* api.smarthouse: the graph load_smarthouse_deep built
    ret,            \* what the last operation returned (and what it was given)
    openCursors,    \* cursors obtained from cursor() and not closed
    pending         \* a delete_oldest_reading between its SELECT and its DELETE

vars == <<rooms, devices, states, measurements, house, ret, openCursors, pending>>

Abs(x) == IF x < 0 THEN -x ELSE x

(***************************************************************************)
(* Actuator state (smarthouse.domain, not among the sources: modelled from *)
(* the data model of the specification).  state is False, True or a float. *)
(***************************************************************************)
Off == [t |-> "bool", v |-> 0]
Running == [t |-> "bool", v |-> 1]
Num(x) == [t |-> "float", v |-> x]
NoState == [t |-> "none", v |-> 0]      \* a Sensor has no state attribute

turn_off == Off
turn_on_default == Running
turn_on(target_value) == Num(target_value)

\* isinstance(dev, Actuator): ActuatorWithSensor is an Actuator too.
IsActuator(dev) == dev.variant \in {"Actuator", "ActuatorWithSensor"}
\* device.is_sensor()
is_sensor(dev) == dev.variant \in {"Sensor", "ActuatorWithSensor"}

(***************************************************************************)
(* SQL values of the column states.state.                                  *)
(***************************************************************************)
Null == [t |-> "null", v |-> 0]
Real(x) == [t |-> "real", v |-> x]

(***************************************************************************)
(* load_smarthouse_deep                                                    *)
(***************************************************************************)
RECURSIVE SetToSeq(_)
\* fetchall() of a SELECT without ORDER BY: the rows in some order.
SetToSeq(S) ==
    IF S = {} THEN <<>>
    ELSE LET x == CHOOSE y \in S : TRUE IN <<x>> \o SetToSeq(S \ {x})

SeqToSet(s) == {s[i] : i \in 1..Len(s)}

\* SELECT MAX(floor) FROM rooms, for a table that has rows.
MaxFloor(rs) == CHOOSE f \in {r.floor : r \in rs} : \A r \in rs : r.floor <= f

\* floors = [register_floor(i + 1) for i in range(0, no_floors)]: the levels.
RegisterFloors(no_floors) == [i \in 1..no_floors |-> i]

\* Python's list[i] on a list of length n: the 1-based position it reads,
\* 0 when it raises IndexError.  A negative i counts from the end.
ListIndex(n, i) ==
    IF 0 <= i /\ i < n THEN i + 1
    ELSE IF -n <= i /\ i < 0 THEN n + i + 1
    ELSE 0

\* floors[int(room_tuple[1]) - 1] for one room row.
RoomFloorPos(floors, r) == ListIndex(Len(floors), r.floor - 1)

\* The room loop: register_room(floors[...], ...) and room.db_id = id.
RegisterRooms(floors, rs) ==
    LET rows == SetToSeq(rs)
    IN  [i \in 1..Len(rows) |->
            [db_id |-> rows[i].id, floor |-> floors[RoomFloorPos(floors, rows[i])]]]

\* The Device variant the device loop constructs for a row; "" when it
\* constructs none (neither branch of the if/elif is taken).
DeviceVariant(d) ==
    IF d.category = "sensor" THEN "Sensor"
    ELSE IF d.category = "actuator"
         THEN IF d.kind = "Heat Pump" THEN "ActuatorWithSensor" ELSE "Actuator"
         ELSE ""

\* The state branch of the last loop, for the fetched column value.
DecodeState(state) ==
    IF state = Null THEN turn_off
    ELSE IF state.v = One THEN turn_on_default
    ELSE turn_on(state.v)

\* SELECT state FROM states WHERE device = dev.id, then fetchone().
SelectState(ss, id) == {s \in ss : s.device = id}

\* The device loop and the state loop: the devices of the house.
RegisterDevices(ds, ss) ==
    LET rows == SetToSeq({d \in ds : DeviceVariant(d) # ""})
        StateOf(d) ==
            IF DeviceVariant(d) = "Sensor" THEN NoState
            ELSE DecodeState((CHOOSE s \in SelectState(ss, d.id) : TRUE).state)
    IN  [i \in 1..Len(rows) |->
            [id |-> rows[i].id, variant |-> DeviceVariant(rows[i]),
             room |-> rows[i].room, state |-> StateOf(rows[i])]]

\* The places where load_smarthouse_deep raises.
LoadRaises(rs, ds, ss) ==
    \/ rs = {}                       \* range(0, None): TypeError
    \/ \E r \in rs : RoomFloorPos(RegisterFloors(MaxFloor(rs)), r) = 0   \* IndexError
    \/ \E d \in ds : ~ \E r \in rs : r.id = d.room                       \* KeyError
    \/ \E d \in ds : /\ DeviceVariant(d) \in {"Actuator", "ActuatorWithSensor"}
                     /\ SelectState(ss, d.id) = {}     \* fetchone() is None

NotLoaded == [status |-> "none", floors |-> <<>>, rooms |-> <<>>, devices |-> <<>>]
LoadError == [status |-> "error", floors |-> <<>>, rooms |-> <<>>, devices |-> <<>>]

load_smarthouse_deep(rs, ds, ss) ==
    IF LoadRaises(rs, ds, ss) THEN LoadError
    ELSE LET floors == RegisterFloors(MaxFloor(rs))
         IN  [status |-> "ok", floors |-> floors,
              rooms |-> RegisterRooms(floors, rs),
              devices |-> RegisterDevices(ds, ss)]

(***************************************************************************)
(* update_actuator_state                                                   *)
(***************************************************************************)
\* str(x) of a float, as the text spliced into the UPDATE statement: sign,
\* integer digits, "." and the fraction digit ("21.5", "-0.5", "1.0").
StrFloat(x) == [null |-> FALSE, neg |-> x < 0, int |-> Abs(x) \div 10, frac |-> Abs(x) % 10]

NullLiteral == [null |-> TRUE, neg |-> FALSE, int |-> 0, frac |-> 0]     \* 'NULL'
OneLiteral == [null |-> FALSE, neg |-> FALSE, int |-> 1, frac |-> 0]     \* '1.0'

\* The literal s the method builds from actuator.state.
StateLiteralMutant(state) ==
    IF state.t = "float" THEN StrFloat(state.v) ELSE NullLiteral

StateLiteral(state) ==
    IF state.t = "float" THEN StrFloat(state.v)
    ELSE IF state = Running THEN OneLiteral
    ELSE NullLiteral

\* The value SQLite stores for the literal in SET state = {s}.
SqlValue(lit) ==
    IF lit.null THEN Null
    ELSE Real((IF lit.neg THEN -1 ELSE 1) * (lit.int * 10 + lit.frac))

\* UPDATE states SET state = {s} WHERE device = '{actuator.id}'
update_actuator_state(ss, actuator) ==
    {IF r.device = actuator.id
        THEN [r EXCEPT !.state = SqlValue(StateLiteral(actuator.state))]
        ELSE r : r \in ss}

(***************************************************************************)
(* The handlers.  Every call of cursor() takes one of the connection's     *)
(* cursors; close() gives it back.                                         *)
(***************************************************************************)
CanOpenCursor == openCursors < MaxCursors

NoPending == [active |-> FALSE]

\* smarthouse = repo.load_smarthouse_deep()  (api.py:22)
Load ==
    /\ CanOpenCursor
    /\ house' = load_smarthouse_deep(rooms, devices, states)
    /\ openCursors' = IF house'.status = "ok" THEN openCursors ELSE openCursors + 1
    /\ ret' = [op |-> "load_smarthouse_deep", raised |-> house'.status # "ok"]
    /\ UNCHANGED <<rooms, devices, states, measurements, pending>>

\* smarthouse.get_device_by_id(uuid): the positions of the device in the house.
DevicePos(h, uuid) == {i \in 1..Len(h.devices) : h.devices[i].id = uuid}

\* The in-memory state after the if/elif chain of update_sensor_state.
TargetState(old, target) ==
    IF target.t = "float" THEN turn_on(target.v)
    ELSE IF target.t = "running" THEN turn_on_default
    ELSE IF target.t = "off" THEN turn_off
    ELSE old

\* PUT /smarthouse/actuator/{uuid}/
UpdateSensorState(uuid, target) ==
    /\ house.status = "ok"
    /\ LET pos == DevicePos(house, uuid)
       IN  IF pos # {} /\ IsActuator(house.devices[CHOOSE i \in pos : TRUE])
           THEN LET i == CHOOSE j \in pos : TRUE
                    dev == [house.devices[i] EXCEPT
                               !.state = TargetState(house.devices[i].state, target)]
                IN  /\ CanOpenCursor
                    /\ house' = [house EXCEPT !.devices[i] = dev]
                    /\ states' = update_actuator_state(states, dev)
                    /\ ret' = [op |-> "update_sensor_state", uuid |-> uuid,
                               target |-> target, status |-> 200]
           ELSE /\ ret' = [op |-> "update_sensor_state", uuid |-> uuid,
                           target |-> target, status |-> 404]
                /\ UNCHANGED <<house, states>>
    /\ UNCHANGED <<rooms, devices, measurements, openCursors, pending>>

(***************************************************************************)
(* The measurement time series.  A timestamp is a well-formed ISO-8601     *)
(* string, kept as its date, its separator (SQLite reads both              *)
(* "2024-01-01 09:00:00" and "2024-01-01T09:00:00") and its hour.          *)
(***************************************************************************)
\* datetime(ts): SQLite's normal form "YYYY-MM-DD HH:MM:SS", as a number that
\* orders the way the normal forms do.
DateTime(ts) == ts.date * 24 + ts.hour

\* The order of the strings themselves (ORDER BY ts): date, then the
\* separator (" " sorts before "T"), then the time.
StrKey(ts) == (ts.date * 2 + (IF ts.sep = "T" THEN 1 ELSE 0)) * 24 + ts.hour

\* Measurement(timestamp=t[0], value=t[1], unit=t[2])
Measurement(row) == [timestamp |-> row.ts, value |-> row.value, unit |-> row.unit]

\* The rows S of table M, with their multiplicities: the rows a WHERE keeps.
Where(M, S) == [x \in S |-> M[x]]

OfDevice(M, sensor) == Where(M, {r \in BagToSet(M) : r.device = sensor})

SeqToBag(s) ==
    [x \in SeqToSet(s) |-> Cardinality({i \in 1..Len(s) : s[i] = x})]

RECURSIVE OrderByDateTimeDesc(_)
\* The orders in which SELECT ... ORDER BY datetime(ts) DESC may return the
\* rows of B: rows at the same instant come in any order.
OrderByDateTimeDesc(B) ==
    IF BagToSet(B) = {} THEN {<<>>}
    ELSE UNION {{<<r>> \o s : s \in OrderByDateTimeDesc(B (-) SetToBag({r}))} :
                  r \in {x \in BagToSet(B) :
                            \A q \in BagToSet(B) : DateTime(x.ts) >= DateTime(q.ts)}}

Take(s, n) == IF n < Len(s) THEN SubSeq(s, 1, n) ELSE s

\* LIMIT n: a negative n is no limit.
SqlLimit(s, n) == IF n < 0 THEN s ELSE Take(s, n)

\* `if limit_n:` - None and 0 are both false.
LimitGiven(limit_n) == limit_n.given /\ limit_n.n # 0

\* get_readings: the lists the method may return.
get_readings(M, sensor, limit_n) ==
    LET all == OrderByDateTimeDesc(OfDevice(M, sensor))
    IN  {[i \in 1..Len(t) |-> Measurement(t[i])] :
            t \in {IF LimitGiven(limit_n) THEN SqlLimit(s, limit_n.n) ELSE s : s \in all}}

\* The key delete_oldest_reading orders by (ORDER BY datetime(ts) ASC).
OldestKey(r) == DateTime(r.ts)

\* SELECT ... ORDER BY datetime(ts) ASC LIMIT 1, then fetchone(): the rows it
\* may return (none when the device has no rows).
SelectOldest(M, sensor) ==
    LET mine == BagToSet(OfDevice(M, sensor))
    IN  {r \in mine : \A q \in mine : OldestKey(r) <= OldestKey(q)}

\* The rows DELETE FROM measurements WHERE device = ? AND ts = ? removes.
DeletedRowsMutant(M, sensor, ts) ==
    Where(M, {r \in BagToSet(M) : r.ts = ts})

DeletedRows(M, sensor, ts) ==
    Where(M, {r \in BagToSet(M) : r.device = sensor /\ r.ts = ts})

\* INSERT INTO measurements (device, ts, value, unit) VALUES (?, ?, ?, ?)
insert_measurement(M, sensor, m) ==
    M (+) SetToBag({[device |-> sensor, ts |-> m.timestamp,
                     value |-> m.value, unit |-> m.unit]})

\* The key get_latest_reading orders by (order by ts desc).
LatestKeyMutant(r) == 0 - StrKey(r.ts)

LatestKey(r) == StrKey(r.ts)

\* get_latest_reading: the results it may return, <<>> for None.
get_latest_reading(M, sensor) ==
    LET mine == BagToSet(OfDevice(M, sensor))
    IN  IF mine = {} THEN {<<>>}
        ELSE {<<Measurement(r)>> : r \in {x \in mine : \A q \in mine : LatestKey(x) >= LatestKey(q)}}

\* `device and device.is_sensor()` of the sensor handlers.
SensorFound(uuid) ==
    /\ house.status = "ok"
    /\ \E i \in DevicePos(house, uuid) : is_sensor(house.devices[i])

NotFound(op, uuid) ==
    /\ house.status = "ok"
    /\ ~ SensorFound(uuid)
    /\ ret' = [op |-> op, uuid |-> uuid, found |-> FALSE, status |-> 404]
    /\ UNCHANGED <<rooms, devices, states, measurements, house, openCursors, pending>>

\* POST /smarthouse/sensor/{uuid}/current
AddSensorMeasurement(uuid, m) ==
    \/ NotFound("add_sensor_measurement", uuid)
    \/ /\ SensorFound(uuid)
       /\ CanOpenCursor
       /\ BagCardinality(measurements) < MaxRows
       /\ measurements' = insert_measurement(measurements, uuid, m)
       /\ ret' = [op |-> "add_sensor_measurement", uuid |-> uuid, found |-> TRUE, status |-> 201,
                  result |-> <<m>>]
       /\ pending' = IF pending.active
                        THEN [pending EXCEPT !.inserted = insert_measurement(@, uuid, m)]
                        ELSE pending
       /\ UNCHANGED <<rooms, devices, states, house, openCursors>>

\* GET /smarthouse/sensor/{uuid}/values
GetMeasurements(uuid, n) ==
    \/ NotFound("get_measurements", uuid)
    \/ /\ SensorFound(uuid)
       /\ CanOpenCursor
       /\ \E result \in get_readings(measurements, uuid, n) :
             ret' = [op |-> "get_measurements", uuid |-> uuid, found |-> TRUE, status |-> 200,
                     limit |-> n, result |-> result]
       /\ UNCHANGED <<rooms, devices, states, measurements, house, openCursors, pending>>

\* delete_oldest_reading from the tuple fetched to the return: the table
\* after the DELETE and what the handler answers.
DeleteFetched(uuid, tup, before) ==
    IF tup = <<>>
    THEN /\ ret' = [op |-> "delete_old_measurement", uuid |-> uuid, found |-> TRUE,
                    status |-> 200, result |-> <<>>, before |-> before,
                    removed |-> EmptyBag, inserted |-> EmptyBag]
         /\ UNCHANGED measurements
    ELSE /\ measurements' = measurements (-) DeletedRows(measurements, uuid, tup[1].ts)
         /\ ret' = [op |-> "delete_old_measurement", uuid |-> uuid, found |-> TRUE,
                    status |-> 200, result |-> <<Measurement(tup[1])>>, before |-> before,
                    removed |-> DeletedRows(measurements, uuid, tup[1].ts),
                    inserted |-> IF pending.active THEN pending.inserted ELSE EmptyBag]

\* c.fetchone() of the SELECT: <<>> for None.
FetchOldest(M, uuid) ==
    IF SelectOldest(M, uuid) = {} THEN {<<>>} ELSE {<<r>> : r \in SelectOldest(M, uuid)}

\* DELETE /smarthouse/sensor/{uuid}/oldest, with no other request in between.
DeleteOldMeasurement(uuid) ==
    \/ NotFound("delete_old_measurement", uuid)
    \/ /\ SensorFound(uuid)
       /\ CanOpenCursor
       /\ ~ pending.active
       /\ \E tup \in FetchOldest(measurements, uuid) :
             DeleteFetched(uuid, tup, measurements)
       /\ UNCHANGED <<rooms, devices, states, house, openCursors, pending>>

\* The same handler when other requests run on the shared connection
\* (check_same_thread=False) between its two statements: first the SELECT
\* and fetchone() ...
DeleteSelect(uuid) ==
    /\ SensorFound(uuid)
    /\ CanOpenCursor
    /\ ~ pending.active
    /\ \E tup \in FetchOldest(measurements, uuid) :
          pending' = [active |-> TRUE, uuid |-> uuid, tup |-> tup,
                      before |-> measurements, inserted |-> EmptyBag]
    /\ openCursors' = openCursors + 1
    /\ UNCHANGED <<rooms, devices, states, measurements, house, ret>>

\* ... then the DELETE, commit(), close() and the return.
DeleteExecute ==
    /\ pending.active
    /\ DeleteFetched(pending.uuid, pending.tup, pending.before)
    /\ pending' = NoPending
    /\ openCursors' = openCursors - 1
    /\ UNCHANGED <<rooms, devices, states, house>>

\* GET /smarthouse/sensor/{uuid}/current
GetMostRecentMeasurement(uuid) ==
    \/ NotFound("get_most_recent_measurement", uuid)
    \/ /\ SensorFound(uuid)
       /\ CanOpenCursor
       /\ \E reading \in get_latest_reading(measurements, uuid) :
             /\ ret' = [op |-> "get_most_recent_measurement", uuid |-> uuid,
                        found |-> TRUE, status |-> IF reading = <<>> THEN 404 ELSE 200,
                        result |-> reading]
                \* `return None` comes before c.close()
             /\ openCursors' = IF reading = <<>> THEN openCursors + 1 ELSE openCursors
       /\ UNCHANGED <<rooms, devices, states, measurements, house, pending>>

(***************************************************************************)
(* The statistics.  Neither method closes the cursor it opens.             *)
(***************************************************************************)
RECURSIVE SumValues(_)
\* The sum of the values of the rows of a bag, copies counted.
SumValues(B) ==
    IF BagToSet(B) = {} THEN 0
    ELSE LET r == CHOOSE x \in BagToSet(B) : TRUE
             rest == [x \in BagToSet(B) \ {r} |-> B[x]]
         IN  r.value * B[r] + SumValues(rest)

\* AVG(value) over a bag with rows: the quotient, kept as sum and count.
Avg(B) == [sum |-> SumValues(B), n |-> BagCardinality(B)]

\* devices d INNER JOIN measurements m ON m.device = d.id WHERE d.room = id
InRoom(M, ds, id) ==
    Where(M, {r \in BagToSet(M) : \E d \in ds : d.id = r.device /\ d.room = id})

\* The strings '{date} 00:00:00' and '{date} 23:59:59' a bound is compared
\* with; a timestamp is <= the latter when its string sorts before hour 24.
DayStart(date) == [date |-> date, sep |-> " ", hour |-> 0]
DayEnd(date) == [date |-> date, sep |-> " ", hour |-> 24]

\* The rows the query of calc_avg_temperatures_in_room aggregates.
AvgRows(M, ds, room, from_date, until_date) ==
    LET P(r) == /\ r.unit = TempUnit
                /\ from_date.given => StrKey(r.ts) >= StrKey(DayStart(from_date.date))
                /\ until_date.given => StrKey(r.ts) < StrKey(DayEnd(until_date.date))
        joined == InRoom(M, ds, room.db_id)
    IN  Where(joined, {r \in BagToSet(joined) : P(r)})

ByDate(B, date) == Where(B, {r \in BagToSet(B) : r.ts.date = date})
ByHour(B, hour) == Where(B, {r \in BagToSet(B) : r.ts.hour = hour})

\* calc_avg_temperatures_in_room: the dict it returns.
calc_avg_temperatures_in_room(M, ds, room, from_date, until_date) ==
    IF room.persisted
    THEN LET rows == AvgRows(M, ds, room, from_date, until_date)
         IN  [date \in {r.ts.date : r \in BagToSet(rows)} |-> Avg(ByDate(rows, date))]
    ELSE << >>

\* The subquery of calc_hours_with_humidity_above: the rows it averages.
ThresholdRows(M, ds, date) == ByDate(InRoom(M, ds, AvgRoom), date)

\* m.value > (SELECT AVG(value) ...): never true when the subquery has no rows.
AboveAvg(value, B) ==
    /\ BagCardinality(B) > 0
    /\ value * Avg(B).n > Avg(B).sum

\* calc_hours_with_humidity_above: the list it returns, hours ascending.
calc_hours_with_humidity_above(M, ds, rs, room, date) ==
    IF room.persisted
    THEN LET P(r) == /\ \E q \in rs : q.id = room.db_id
                     /\ r.unit = HumidityUnit
                     /\ AboveAvg(r.value, ThresholdRows(M, ds, date))
             joined == ByDate(InRoom(M, ds, room.db_id), date)
             rows == Where(joined, {r \in BagToSet(joined) : P(r)})
             hours == {h \in {r.ts.hour : r \in BagToSet(rows)} :
                          BagCardinality(ByHour(rows, h)) > HourCount}
         IN  CHOOSE s \in [1..Cardinality(hours) -> hours] :
                /\ SeqToSet(s) = hours
                /\ \A i \in 1..(Len(s) - 1) : s[i] < s[i + 1]
    ELSE << >>

CalcAvgTemperaturesInRoom(room, from_date, until_date) ==
    /\ room.persisted => CanOpenCursor
    /\ ret' = [op |-> "calc_avg_temperatures_in_room", room |-> room,
               from_date |-> from_date, until_date |-> until_date,
               result |-> calc_avg_temperatures_in_room(measurements, devices, room,
                                                         from_date, until_date)]
    /\ openCursors' = IF room.persisted THEN openCursors + 1 ELSE openCursors
    /\ UNCHANGED <<rooms, devices, states, measurements, house, pending>>

CalcHoursWithHumidityAbove(room, date) ==
    /\ room.persisted => CanOpenCursor
    /\ ret' = [op |-> "calc_hours_with_humidity_above", room |-> room, date |-> date,
               result |-> calc_hours_with_humidity_above(measurements, devices, rooms,
                                                          room, date)]
    /\ openCursors' = IF room.persisted THEN openCursors + 1 ELSE openCursors
    /\ UNCHANGED <<rooms, devices, states, measurements, house, pending>>

(***************************************************************************)
(* The contents of the static tables the loader is run on.                 *)
(***************************************************************************)
RoomIds == {1, 2}
FloorValues == {0, 1, 2}
DeviceIds == {"d1", "d2"}
KindCategory == {<<"Temperature Sensor", "sensor">>, <<"Heat Pump", "actuator">>,
                 <<"Light Bulb", "actuator">>, <<"Camera", "camera">>}
StoredStates == {Null, Real(One), Real(215)}
SetPoints == {-5, 0, One, 215}
Targets == {[t |-> "float", v |-> x] : x \in SetPoints}
           \cup {[t |-> s, v |-> 0] : s \in {"running", "off", "on"}}

\* Tables with a primary key: no two rows with the same id (device).
RoomTables ==
    {T \in SUBSET [id : RoomIds, floor : FloorValues] :
        \A x, y \in T : x.id = y.id => x = y}
DeviceTables ==
    {T \in SUBSET {[id |-> i, room |-> r, kind |-> kc[1], category |-> kc[2]] :
                      i \in DeviceIds, r \in RoomIds, kc \in KindCategory} :
        \A x, y \in T : x.id = y.id => x = y}
StateTables ==
    {T \in SUBSET [device : DeviceIds, state : StoredStates] :
        \A x, y \in T : x.device = y.device => x = y}

InitLoad ==
    /\ rooms \in RoomTables
    /\ devices \in DeviceTables
    /\ states \in StateTables
    /\ measurements = EmptyBag
    /\ house = NotLoaded
    /\ ret = [op |-> "none"]
    /\ openCursors = 0
    /\ pending = NoPending

NextLoad ==
    \/ Load
    \/ \E uuid \in DeviceIds \cup {"d0"}, target \in Targets : UpdateSensorState(uuid, target)

SpecLoad == InitLoad /\ [][NextLoad]_vars

(***************************************************************************)
(* The house the service is run on: a sensor, a heat pump and a light bulb *)
(* in two rooms on two floors.                                             *)
(***************************************************************************)
HouseRooms == {[id |-> 1, floor |-> 1], [id |-> 2, floor |-> 2]}
HouseDevices ==
    {[id |-> "d1", room |-> 1, kind |-> "Temperature Sensor", category |-> "sensor"],
     [id |-> "d2", room |-> 2, kind |-> "Heat Pump", category |-> "actuator"],
     [id |-> "d3", room |-> 1, kind |-> "Light Bulb", category |-> "actuator"]}
HouseStates == {[device |-> "d2", state |-> Null], [device |-> "d3", state |-> Null]}

Uuids == {"d1", "d2", "d3"}
Timestamps == {[date |-> 1, sep |-> " ", hour |-> 9], [date |-> 1, sep |-> " ", hour |-> 10],
               [date |-> 1, sep |-> "T", hour |-> 9]}
Values == {200, 220}
Units == {TempUnit}
Measurements == [timestamp : Timestamps, value : Values, unit : Units]
Limits == {[given |-> FALSE, n |-> 0]} \cup {[given |-> TRUE, n |-> k] : k \in 0..2}
\* A Room of the house (db_id set) or one that was never stored (db_id None).
RoomArgs == {[persisted |-> TRUE, db_id |-> r.id] : r \in HouseRooms}
            \cup {[persisted |-> FALSE, db_id |-> 0]}
DateArgs == {[given |-> FALSE, date |-> 0], [given |-> TRUE, date |-> 1]}

Init ==
    /\ rooms = HouseRooms
    /\ devices = HouseDevices
    /\ states = HouseStates
    /\ measurements = EmptyBag
    /\ house = NotLoaded
    /\ ret = [op |-> "none"]
    /\ openCursors = 0
    /\ pending = NoPending

Next ==
    \/ Load
    \/ \E uuid \in Uuids, m \in Measurements : AddSensorMeasurement(uuid, m)
    \/ \E uuid \in Uuids, n \in Limits : GetMeasurements(uuid, n)
    \/ \E uuid \in Uuids : DeleteOldMeasurement(uuid)
    \/ \E uuid \in Uuids : GetMostRecentMeasurement(uuid)

Spec == Init /\ [][Next]_vars

\* Every operation of the repository, on fewer different rows.
RepoMeasurements == {m \in Measurements : m.timestamp.sep = " " /\ m.value = 200}
RepoTargets == {t \in Targets : t.t \in {"running", "off"}}

NextRepo ==
    \/ Load
    \/ \E uuid \in Uuids, m \in RepoMeasurements : AddSensorMeasurement(uuid, m)
    \/ \E uuid \in Uuids, n \in Limits : GetMeasurements(uuid, n)
    \/ \E uuid \in Uuids : DeleteOldMeasurement(uuid)
    \/ \E uuid \in Uuids : GetMostRecentMeasurement(uuid)
    \/ \E uuid \in Uuids, target \in RepoTargets : UpdateSensorState(uuid, target)
    \/ \E room \in RoomArgs, from_date, until_date \in DateArgs :
          CalcAvgTemperaturesInRoom(room, from_date, until_date)
    \/ \E room \in RoomArgs : CalcHoursWithHumidityAbove(room, 1)

SpecRepo == Init /\ [][NextRepo]_vars

NextConc ==
    \/ Load
    \/ \E uuid \in Uuids, m \in Measurements : AddSensorMeasurement(uuid, m)
    \/ \E uuid \in Uuids : DeleteSelect(uuid)
    \/ DeleteExecute

SpecConc == Init /\ [][NextConc]_vars

(***************************************************************************)
(* The statistics are functions of the stored rows: they are run on every  *)
(* content of the measurements table up to a number of rows, in a house    *)
(* with a sensor and a heat pump in room 1 and a sensor in room 4.         *)
(***************************************************************************)
StatRooms == {[id |-> 1, floor |-> 1], [id |-> AvgRoom, floor |-> 2]}
StatDevices ==
    {[id |-> "s1", room |-> 1, kind |-> "Temperature Sensor", category |-> "sensor"],
     [id |-> "p1", room |-> 1, kind |-> "Heat Pump", category |-> "actuator"],
     [id |-> "s4", room |-> AvgRoom, kind |-> "Humidity Sensor", category |-> "sensor"]}
StatStates == {[device |-> "p1", state |-> Null]}
StatRoomArgs == {[persisted |-> TRUE, db_id |-> r.id] : r \in StatRooms}
                \cup {[persisted |-> FALSE, db_id |-> 0]}

RECURSIVE TablesUpTo(_, _)
\* The contents of the measurements table with at most n rows out of Rows.
TablesUpTo(Rows, n) ==
    IF n = 0 THEN {EmptyBag}
    ELSE LET smaller == TablesUpTo(Rows, n - 1)
         IN  smaller \cup {B (+) SetToBag({r}) : B \in smaller, r \in Rows}

InitStat(Tables) ==
    /\ rooms = StatRooms
    /\ devices = StatDevices
    /\ states = StatStates
    /\ measurements \in Tables
    /\ house = NotLoaded
    /\ ret = [op |-> "none"]
    /\ openCursors = 0
    /\ pending = NoPending

\* Humidity and temperature rows of the two sensors: low and high values in
\* hour 10 of day 1, and high humidity values in hour 11 and on day 2.
HumidityTimestamps ==
    {[date |-> 1, sep |-> " ", hour |-> 10], [date |-> 1, sep |-> "T", hour |-> 11],
     [date |-> 2, sep |-> " ", hour |-> 10]}
HumidityValues == {200, 600}
HumidityRows ==
    {r \in [device : {"s1", "s4"}, ts : HumidityTimestamps, value : HumidityValues,
            unit : {HumidityUnit, TempUnit}] :
        r.ts.hour # 10 \/ r.ts.date # 1 => r.value = 600 /\ r.unit = HumidityUnit}
HumidityDates == {1, 2}

InitHumidity == InitStat(TablesUpTo(HumidityRows, MaxHumidityRows))

NextHumidity ==
    \E room \in StatRoomArgs, date \in HumidityDates : CalcHoursWithHumidityAbove(room, date)

SpecHumidity == InitHumidity /\ [][NextHumidity]_vars

\* Rows on two days, written with either separator: temperatures of the
\* sensor of room 1, and single values of the heat pump of room 1, of the
\* sensor of room 4 and of the other unit.
TemperatureTimestamps == [date : {1, 2}, sep : {" ", "T"}, hour : {9}]
TemperatureValues == {180, 200, 220}
TemperatureRows ==
    {r \in [device : {"s1", "p1", "s4"}, ts : TemperatureTimestamps,
            value : TemperatureValues, unit : {TempUnit, HumidityUnit}] :
        IF r.device = "s1" /\ r.unit = TempUnit THEN r.value # 180
        ELSE r.value = 180 /\ r.ts.sep = " "}
\* from_date and until_date: None or a day.
TemperatureDateArgs ==
    {[given |-> FALSE, date |-> 0]} \cup {[given |-> TRUE, date |-> d] : d \in {1, 2}}

InitTemperature == InitStat(TablesUpTo(TemperatureRows, MaxTemperatureRows))

NextTemperature ==
    \E room \in StatRoomArgs, from_date, until_date \in TemperatureDateArgs :
        CalcAvgTemperaturesInRoom(room, from_date, until_date)

SpecTemperature == InitTemperature /\ [][NextTemperature]_vars

(***************************************************************************)
(* Properties of the time series.                                          *)
(***************************************************************************)
Min(a, b) == IF a < b THEN a ELSE b

DeleteReturned == ret.op = "delete_old_measurement" /\ ret.found

\* The rows of the device all carry different timestamps.
DistinctTimestamps(B) ==
    \A x \in BagToSet(B) : B[x] = 1 /\ \A y \in BagToSet(B) : x.ts = y.ts => x = y

\* C2: when the rows of a device carry pairwise distinct timestamps,
\* delete_oldest_reading removes exactly the row with the earliest timestamp
\* and returns it, and changes no other row of this or another device; when
\* the device has no rows it returns None and the table is unchanged.
C2_DeleteOldestRemovesEarliest ==
    DeleteReturned /\ DistinctTimestamps(OfDevice(ret.before, ret.uuid)) =>
        LET mine == BagToSet(OfDevice(ret.before, ret.uuid))
        IN  IF mine = {}
            THEN ret.result = <<>> /\ measurements = ret.before
            ELSE \E r \in mine :
                    /\ \A q \in mine : DateTime(r.ts) <= DateTime(q.ts)
                    /\ ret.result = <<Measurement(r)>>
                    /\ measurements = ret.before (-) SetToBag({r})

\* A delete on a device with two rows at different instants, the earlier of
\* which has the greater string, while the other device has a row as well.
C2_Witness ==
    /\ DeleteReturned
    /\ DistinctTimestamps(OfDevice(ret.before, ret.uuid))
    /\ BagCardinality(OfDevice(ret.before, ret.uuid)) = 2
    /\ BagCardinality(ret.before) = 3
    /\ ret.result # <<>>
    /\ \E q \in BagToSet(OfDevice(measurements, ret.uuid)) :
          /\ DateTime(ret.result[1].timestamp) < DateTime(q.ts)
          /\ StrKey(ret.result[1].timestamp) > StrKey(q.ts)

\* C3: delete_oldest_reading on a device with n >= 1 rows leaves the device
\* with exactly n - 1 rows, also when several rows share the smallest timestamp.
C3_DeleteRemovesOneRow ==
    DeleteReturned /\ BagCardinality(OfDevice(ret.before, ret.uuid)) >= 1 =>
        BagCardinality(OfDevice(measurements, ret.uuid))
            = BagCardinality(OfDevice(ret.before, ret.uuid)) - 1

C6_ReadingsCappedByLimit ==
    ret.op = "get_measurements" /\ ret.found =>
        LET mine == OfDevice(measurements, ret.uuid)
            n == BagCardinality(mine)
            res == ret.result
            want == IF ret.limit.given /\ ret.limit.n >= 0 THEN Min(ret.limit.n, n) ELSE n
        IN  /\ Len(res) = want
            /\ \A i \in 1..(Len(res) - 1) :
                  DateTime(res[i].timestamp) >= DateTime(res[i + 1].timestamp)
            /\ \E rest \in [1..(n - want) -> BagToSet(mine)] :
                  /\ SeqToBag([i \in 1..n |->
                        IF i <= want
                           THEN [device |-> ret.uuid, ts |-> res[i].timestamp,
                                 value |-> res[i].value, unit |-> res[i].unit]
                           ELSE rest[i - want]]) = mine
                  /\ \A i \in 1..want, j \in 1..(n - want) :
                        DateTime(res[i].timestamp) >= DateTime(rest[j].ts)

\* C10: after any sequence of operations no cursor is left open.
C10_NoOpenCursors == openCursors = 0

(***************************************************************************)
(* Properties of the loader and of the actuator state.                     *)
(***************************************************************************)
\* What a fresh load_smarthouse_deep returns for the present tables.
FreshLoad == load_smarthouse_deep(rooms, devices, states)

Actuators(h) == {h.devices[i] : i \in {j \in 1..Len(h.devices) : IsActuator(h.devices[j])}}

Updated == ret.op = "update_sensor_state" /\ ret.status = 200

\* C1 as stated: after update_actuator_state, a fresh load yields every
\* actuator of the house with the state it holds in memory, a numeric
\* setpoint included.
C1_StateRoundTrip ==
    Updated =>
        /\ FreshLoad.status = "ok"
        /\ \A a \in Actuators(house) :
              \E i \in DevicePos(FreshLoad, a.id) : FreshLoad.devices[i].state = a.state

\* C1 as amended: the same, except that a numeric setpoint of exactly 1.0 is
\* stored as 1.0 and comes back as running.
C1_StateRoundTripButOne ==
    Updated =>
        /\ FreshLoad.status = "ok"
        /\ \A a \in Actuators(house) :
              /\ Cardinality(DevicePos(FreshLoad, a.id)) = 1
              /\ \A i \in DevicePos(FreshLoad, a.id) :
                    FreshLoad.devices[i].state
                        = IF a.state = Num(One) THEN Running ELSE a.state

\* Two actuators, one running and one at setpoint 21.5, written and loaded back.
C1_Witness ==
    /\ Updated
    /\ \E a, b \in Actuators(house) :
          /\ a.state = Running /\ b.state = Num(215)
          /\ \E i \in DevicePos(FreshLoad, a.id) : FreshLoad.devices[i].state = Running
          /\ \E i \in DevicePos(FreshLoad, b.id) : FreshLoad.devices[i].state = Num(215)

Loaded == ret.op = "load_smarthouse_deep" /\ house.status = "ok"

\* C7: a load that returns a House registers the floors 1..max(stored floor),
\* and every stored room is in the House exactly once, with its id, on the
\* floor whose level is the room's stored floor number.
C7_RoomsOnStoredFloors ==
    Loaded =>
        /\ house.floors = [i \in 1..MaxFloor(rooms) |-> i]
        /\ Len(house.rooms) = Cardinality(rooms)
        /\ \A r \in rooms :
              \E i \in 1..Len(house.rooms) :
                 house.rooms[i].db_id = r.id /\ house.rooms[i].floor = r.floor
        /\ \A level \in 1..MaxFloor(rooms) :
              Cardinality({i \in 1..Len(house.rooms) : house.rooms[i].floor = level})
                 = Cardinality({r \in rooms : r.floor = level})

\* Tables the loader has nothing else to object to: rooms on floors >= 1,
\* devices of the two categories in rooms that exist.
TablesWellFormed ==
    /\ rooms # {}
    /\ \A r \in rooms : r.floor >= 1
    /\ \A d \in devices :
          /\ d.category \in {"sensor", "actuator"}
          /\ \E r \in rooms : r.id = d.room

\* C8: the load gives every device with actuator capability the state
\* decoded from the states table: no row or NULL is off, 1.0 is running, any
\* other value v is on with setpoint v.
C8_StateDecoding ==
    ret.op = "load_smarthouse_deep" /\ TablesWellFormed =>
        /\ house.status = "ok"
        /\ \A d \in devices :
              d.category = "actuator" =>
                 \E i \in DevicePos(house, d.id) :
                    house.devices[i].state =
                       IF SelectState(states, d.id) = {} THEN Off
                       ELSE LET st == (CHOOSE s \in SelectState(states, d.id) : TRUE).state
                            IN  IF st = Null THEN Off
                                ELSE IF st = Real(One) THEN Running
                                ELSE Num(st.v)

\* C9: a load that returns a House holds every stored room and every stored
\* device, each device as the variant of its category and kind; a device row
\* with an unknown room or another category never yields a House.
C9_LoadAllOrNothing ==
    Loaded =>
        /\ \A r \in rooms : \E i \in 1..Len(house.rooms) : house.rooms[i].db_id = r.id
        /\ \A d \in devices :
              /\ d.category \in {"sensor", "actuator"}
              /\ \E r \in rooms : r.id = d.room
              /\ \E i \in DevicePos(house, d.id) :
                    house.devices[i].variant =
                       IF d.category = "sensor" THEN "Sensor"
                       ELSE IF d.kind = "Heat Pump" THEN "ActuatorWithSensor"
                       ELSE "Actuator"

\* C4: when the timestamp delete_oldest_reading finds is held by one row of
\* the device at that moment, the rows it removes are exactly the row it
\* returns, and no row inserted between its SELECT and its DELETE is removed,
\* in every interleaving with concurrent inserts.
C4_DeleteRemovesReturnedRow ==
    DeleteReturned /\ ret.result # <<>> =>
        LET found == [device |-> ret.uuid, ts |-> ret.result[1].timestamp,
                      value |-> ret.result[1].value, unit |-> ret.result[1].unit]
        IN  BagCardinality(DeletedRows(ret.before, ret.uuid, found.ts)) = 1 =>
               /\ ret.removed = SetToBag({found})
               /\ \A r \in BagToSet(ret.inserted) : ~ BagIn(r, ret.removed)

(***************************************************************************)
(* Properties of the statistics.                                           *)
(***************************************************************************)
\* The humidity-unit rows of the devices of a room on a date.
HumidityOfRoom(room, date) ==
    IF room.persisted
    THEN LET joined == ByDate(InRoom(measurements, devices, room.db_id), date)
         IN  Where(joined, {r \in BagToSet(joined) : r.unit = HumidityUnit})
    ELSE EmptyBag

\* The hours with more than three humidity rows of the room on the date whose
\* value is above the average humidity of that room on that date.
HoursAboveRoomAverage(room, date) ==
    LET mine == HumidityOfRoom(room, date)
        above == Where(mine, {r \in BagToSet(mine) : AboveAvg(r.value, mine)})
    IN  {h \in 0..23 : BagCardinality(ByHour(above, h)) > 3}

\* C11: calc_hours_with_humidity_above returns, ascending and without
\* duplicates, exactly the hours in which more than three humidity readings of
\* the devices of the given room on the given date exceed the average humidity
\* of that same room on that same date, for every room and every stored table.
C11_HoursAboveRoomAverage ==
    ret.op = "calc_hours_with_humidity_above" =>
        /\ SeqToSet(ret.result) = HoursAboveRoomAverage(ret.room, ret.date)
        /\ \A i \in 1..(Len(ret.result) - 1) : ret.result[i] < ret.result[i + 1]

\* The temperature-unit rows of the devices of a room whose instant lies
\* within [from_date 00:00:00, until_date 23:59:59]; an absent bound is open.
TemperatureOfRoom(room, from_date, until_date) ==
    IF room.persisted
    THEN LET joined == InRoom(measurements, devices, room.db_id)
         IN  Where(joined, {r \in BagToSet(joined) :
                /\ r.unit = TempUnit
                /\ from_date.given => DateTime(r.ts) >= DateTime(DayStart(from_date.date))
                /\ until_date.given => DateTime(r.ts) < DateTime(DayEnd(until_date.date))})
    ELSE EmptyBag

\* Two averages, kept as sum and count, are the same number.
SameAvg(a, b) == a.sum * b.n = b.sum * a.n

\* C12: calc_avg_temperatures_in_room returns a mapping whose keys are exactly
\* the dates on which a temperature-unit row of a device of the room lies
\* within the bounds, each with the average of those rows of that date; rows
\* of other rooms or units do not contribute, and the mapping is empty for a
\* room without persisted id or when no row matches.
C12_AvgPerDateWithinBounds ==
    ret.op = "calc_avg_temperatures_in_room" =>
        LET mine == TemperatureOfRoom(ret.room, ret.from_date, ret.until_date)
        IN  /\ DOMAIN ret.result = {r.ts.date : r \in BagToSet(mine)}
            /\ \A date \in DOMAIN ret.result :
                  SameAvg(ret.result[date], Avg(ByDate(mine, date)))

====
